---- MODULE Spec2Model ----
(***************************************************************************)
(* Model of pymc_marketing.mmm.budget_optimizer.BudgetOptimizer            *)
(* (objective, allocate_budget) and of                                     *)
(* pymc_marketing.mmm.models.components.lagging (BaseFunction and the      *)
(* three adstock components).                                              *)
(*                                                                         *)
(* Numbers are integers.  Python's `//` on a positive divisor is floor     *)
(* division, which is what \div is.  The transforms work in integer        *)
(* fixed-point arithmetic.                                                 *)
(*                                                                         *)
(* Three specifications share the variables:                               *)
(*   Spec     one call of allocate_budget on a constructed optimizer       *)
(*   SpecObj  one call of objective on a constructed optimizer             *)
(*   SpecCfg  construction of a lagging component                          *)
(* allocate_budget keeps no state on the instance, so calls are            *)
(* independent and a behaviour of Spec is one call.                        *)
(***************************************************************************)
EXTENDS Integers, Sequences, FiniteSets, TLC

VARIABLES
    parameters,         \* self.parameters: ordered table, one row per channel
    adstock_first,      \* self.adstock_first
    total_budget,       \* argument of allocate_budget
    budget_bounds,      \* argument of allocate_budget
    custom_constraints, \* argument of allocate_budget
    phase,              \* position of the allocate_budget call
    warnings,           \* warnings.warn calls made so far, in order
    constraints,        \* local `constraints`
    initial_guess,      \* local `initial_guess`
    bounds,             \* local `bounds`
    solverCalls,        \* number of calls of scipy.optimize.minimize
    objCalls,           \* number of calls of self.objective made by the solver
    result,             \* local `result` (the solver's OptimizeResult)
    outcome,            \* how the allocate_budget call ended
    budgets,            \* argument of objective
    obj_value,          \* value returned by objective
    name,               \* argument of _get_lagging_function
    model_config_arg,   \* argument model_config of the component constructor
    model_config,       \* self.model_config after construction
    cfg_outcome         \* how _get_lagging_function ended

vars == <<parameters, adstock_first, total_budget, budget_bounds,
          custom_constraints, phase, warnings, constraints, initial_guess,
          bounds, solverCalls, objCalls, result, outcome, budgets, obj_value,
          name, model_config_arg, model_config, cfg_outcome>>

allocVars == <<total_budget, budget_bounds, custom_constraints, phase,
               warnings, constraints, initial_guess, bounds, solverCalls,
               objCalls, result, outcome>>

objVars == <<budgets, obj_value>>

cfgVars == <<name, model_config_arg, model_config, cfg_outcome>>

instVars == <<parameters, adstock_first>>

----------------------------------------------------------------------------
(* Bounds of the model *)

MaxChannels == 2    \* largest number of channels in the parameter table
MaxBudget == 3      \* largest total_budget / largest spend per channel
MaxEvals == 2       \* cap on objective evaluations during one solve
num_days == 2       \* self.num_days
l_max == 1          \* self.adstock.l_max

----------------------------------------------------------------------------
(* Python values *)

None == [kind |-> "None"]

RECURSIVE SumSeq(_)
SumSeq(s) == IF s = <<>> THEN 0 ELSE Head(s) + SumSeq(Tail(s))

RECURSIVE Pow(_, _)
Pow(b, e) == IF e = 0 THEN 1 ELSE b * Pow(b, e - 1)

\* [v] * k
Repeat(v, k) == [i \in 1..k |-> v]

----------------------------------------------------------------------------
(* The two transforms.  Their code (mmm/components/adstock.py and         *)
(* saturation.py) is not part of the sources at hand; they follow the     *)
(* component design: a normalised geometric filter over the lag window,   *)
(* zero before the start of the series, and an elementwise increasing     *)
(* concave saturation through the origin.                                 *)

AlphaDen == 4       \* decay alpha is alpha / AlphaDen
SatScale == 12      \* fixed-point scale of the saturation response

AdstockWeight(alpha, k) == Pow(alpha, k) * Pow(AlphaDen, l_max - k)

AdstockFunction(x, adstock_params) ==
    LET w(k) == AdstockWeight(adstock_params.alpha, k)
        W == SumSeq([k \in 1..(l_max + 1) |-> w(k - 1)])
        lagged(t) == [k \in 1..(l_max + 1) |->
                        IF t - (k - 1) >= 1 THEN w(k - 1) * x[t - (k - 1)]
                                            ELSE 0]
    IN  [t \in 1..Len(x) |-> SumSeq(lagged(t)) \div W]

SaturationFunction(x, saturation_params) ==
    [t \in 1..Len(x) |->
        IF x[t] <= 0 THEN 0
        ELSE (SatScale * x[t]) \div (x[t] + saturation_params.lam)]

\* transform.function(x=x, **params)
TransformFunction(transform, x, params) ==
    IF transform = "adstock" THEN AdstockFunction(x, params)
                             ELSE SaturationFunction(x, params)

----------------------------------------------------------------------------
(* BudgetOptimizer.objective *)

\* channel_response with the order fixed to adstock first, whatever the flag
channel_response_adstock_first(params, adst_first, budget) ==
    SumSeq(SaturationFunction(
               AdstockFunction(Repeat(budget, num_days) \o Repeat(0, l_max),
                               params.adstock_params),
               params.saturation_params))

\* lines 81-97: one pass of the loop body, the channel's summed response
channel_response(params, adst_first, budget) ==
    LET first_transform == IF adst_first THEN "adstock" ELSE "saturation"
        second_transform == IF adst_first THEN "saturation" ELSE "adstock"
        first_params == IF adst_first THEN params.adstock_params
                                      ELSE params.saturation_params
        second_params == IF adst_first THEN params.saturation_params
                                       ELSE params.adstock_params
        spend == Repeat(budget, num_days)
        spend_extended == spend \o Repeat(0, l_max)
        transformed_spend ==
            TransformFunction(second_transform,
                TransformFunction(first_transform, spend_extended,
                                  first_params),
                second_params)
    IN  SumSeq(transformed_spend)

\* lines 74, 80, 98: the loop over enumerate(self.parameters.items())
RECURSIVE objective_loop(_, _, _, _, _)
objective_loop(idx, total_response, params_table, adst_first, budgets_arg) ==
    IF idx > Len(params_table) THEN total_response
    ELSE objective_loop(idx + 1,
                        total_response
                          + channel_response(params_table[idx].params,
                                             adst_first, budgets_arg[idx]),
                        params_table, adst_first, budgets_arg)

objective(params_table, adst_first, budgets_arg) ==
    0 - objective_loop(1, 0, params_table, adst_first, budgets_arg)

----------------------------------------------------------------------------
(* Instances: BudgetOptimizer.__init__ *)

AllChannels == <<"tv", "radio", "social", "search">>

ParamChoices ==
    { [adstock_params |-> [alpha |-> 1], saturation_params |-> [lam |-> 1]],
      [adstock_params |-> [alpha |-> 3], saturation_params |-> [lam |-> 3]] }

\* parameter tables with n channels, in the table's (dict insertion) order
TablesOf(n) ==
    { [i \in 1..n |-> [channel |-> AllChannels[i], params |-> p[i]]] :
        p \in [1..n -> ParamChoices] }

ParameterTables == UNION { TablesOf(n) : n \in 0..MaxChannels }

\* parameter tables whose channels all have the same parameters
UniformTables ==
    { [i \in 1..n |-> [channel |-> AllChannels[i], params |-> p]] :
        n \in 0..MaxChannels, p \in ParamChoices }

ChannelsOf(params_table) ==
    { params_table[i].channel : i \in 1..Len(params_table) }

----------------------------------------------------------------------------
(* Arguments of allocate_budget *)

TotalBudgets == (0 - 1)..MaxBudget

\* (min, max) pairs a caller may put in budget_bounds
BoundChoices == { <<0, 1>>, <<1, MaxBudget>>, <<2, 1>>, <<0 - 1, 2>> }

\* a value that is not a dict (a list of pairs, say)
NotADict == [kind |-> "list"]

IsDict(v) == v.kind = "dict"

\* budget_bounds: None, a non-dict, or a dict keyed by some of the channels
BudgetBoundsArgs(params_table) ==
    {None, NotADict} \cup
    { [kind |-> "dict", map |-> m] :
        m \in UNION { [K -> BoundChoices] :
                        K \in SUBSET ChannelsOf(params_table) } }

\* custom_constraints: None, a non-dict, or a scipy constraint dict
ConstraintArgs ==
    {None, NotADict,
     [kind |-> "dict", type |-> "ineq", fun |-> "total_budget_minus_sum"],
     [kind |-> "dict", type |-> "eq", fun |-> "first_minus_one"]}

\* constraint["fun"](x)
ConstraintFun(fun, x, tb) ==
    CASE fun = "sum_minus_total_budget" -> SumSeq(x) - tb
      [] fun = "total_budget_minus_sum" -> tb - SumSeq(x)
      [] fun = "first_minus_one" -> x[1] - 1

----------------------------------------------------------------------------
(* allocate_budget, lines 138-171: everything before the solver *)

BoundsWarning ==
    "No budget bounds provided. Using default bounds (0, total_budget) for each channel."

ConstraintWarning ==
    "Using default equaliy constraint: The sum of all budgets should be equal to the total budget."

\* resolve_budget_bounds without the warning for the default
resolve_budget_bounds_silent(bb, tb, params_table) ==
    IF bb = None
    THEN [raised |-> FALSE,
          budget_bounds |->
              [kind |-> "dict",
               map |-> [channel \in ChannelsOf(params_table) |-> <<0, tb>>]],
          warnings |-> <<>>]
    ELSE IF ~IsDict(bb)
    THEN [raised |-> TRUE,
          message |-> "budget_bounds should be a dictionary.",
          warnings |-> <<>>]
    ELSE [raised |-> FALSE, budget_bounds |-> bb, warnings |-> <<>>]

\* lines 138-146
resolve_budget_bounds(bb, tb, params_table) ==
    IF bb = None
    THEN [raised |-> FALSE,
          budget_bounds |->
              [kind |-> "dict",
               map |-> [channel \in ChannelsOf(params_table) |-> <<0, tb>>]],
          warnings |-> <<BoundsWarning>>]
    ELSE IF ~IsDict(bb)
    THEN [raised |-> TRUE,
          message |-> "budget_bounds should be a dictionary.",
          warnings |-> <<>>]
    ELSE [raised |-> FALSE, budget_bounds |-> bb, warnings |-> <<>>]

\* resolve_constraints without the isinstance check
resolve_constraints_unchecked(cc) ==
    IF cc = None
    THEN [raised |-> FALSE,
          constraints |-> [kind |-> "dict", type |-> "eq",
                           fun |-> "sum_minus_total_budget"],
          warnings |-> <<ConstraintWarning>>]
    ELSE [raised |-> FALSE, constraints |-> cc, warnings |-> <<>>]

\* lines 148-158
resolve_constraints(cc) ==
    IF cc = None
    THEN [raised |-> FALSE,
          constraints |-> [kind |-> "dict", type |-> "eq",
                           fun |-> "sum_minus_total_budget"],
          warnings |-> <<ConstraintWarning>>]
    ELSE IF ~IsDict(cc)
    THEN [raised |-> TRUE,
          message |-> "custom_constraints should be a dictionary.",
          warnings |-> <<>>]
    ELSE [raised |-> FALSE, constraints |-> cc, warnings |-> <<>>]

\* make_initial_guess rounding the share up instead of down
make_initial_guess_ceil(tb, num_channels) ==
    Repeat((tb + num_channels - 1) \div num_channels, num_channels)

\* lines 160-163
make_initial_guess(tb, num_channels) ==
    Repeat(tb \div num_channels, num_channels)

\* make_bounds that ignores the caller's mapping
make_bounds_defaults_only(bb, tb, params_table) ==
    [i \in 1..Len(params_table) |-> <<0, tb>>]

\* make_bounds with each pair the wrong way round
make_bounds_swapped(bb, tb, params_table) ==
    [i \in 1..Len(params_table) |->
        LET channel == params_table[i].channel
        IN  IF channel \in DOMAIN bb.map
            THEN <<bb.map[channel][2], bb.map[channel][1]>>
            ELSE <<tb, 0>>]

\* lines 164-171
make_bounds(bb, tb, params_table) ==
    [i \in 1..Len(params_table) |->
        LET channel == params_table[i].channel
        IN  IF channel \in DOMAIN bb.map
            THEN <<bb.map[channel][1], bb.map[channel][2]>>
            ELSE <<0, tb>>]

Raise(exc, message) == [kind |-> "raise", exc |-> exc, message |-> message]

Resolve ==
    /\ phase = "CONFIGURED"
    /\ LET rb == resolve_budget_bounds(budget_bounds, total_budget, parameters)
           rc == resolve_constraints(custom_constraints)
           num_channels == Len(parameters)
       IN  IF rb.raised
           THEN /\ phase' = "CONFIG_ERROR"
                /\ outcome' = Raise("TypeError", rb.message)
                /\ warnings' = warnings \o rb.warnings
                /\ UNCHANGED <<constraints, initial_guess, bounds>>
           ELSE IF rc.raised
           THEN /\ phase' = "CONFIG_ERROR"
                /\ outcome' = Raise("TypeError", rc.message)
                /\ warnings' = warnings \o rb.warnings \o rc.warnings
                /\ UNCHANGED <<constraints, initial_guess, bounds>>
           ELSE IF num_channels = 0
           THEN /\ phase' = "ARITHMETIC_ERROR"
                /\ outcome' = Raise("ZeroDivisionError", "division by zero")
                /\ warnings' = warnings \o rb.warnings \o rc.warnings
                /\ constraints' = rc.constraints
                /\ UNCHANGED <<initial_guess, bounds>>
           ELSE /\ phase' = "BOUNDS_AND_CONSTRAINTS_RESOLVED"
                /\ warnings' = warnings \o rb.warnings \o rc.warnings
                /\ constraints' = rc.constraints
                /\ initial_guess' = make_initial_guess(total_budget,
                                                       num_channels)
                /\ bounds' = make_bounds(rb.budget_bounds, total_budget,
                                         parameters)
                /\ UNCHANGED outcome
    /\ UNCHANGED <<total_budget, budget_bounds, custom_constraints,
                   solverCalls, objCalls, result>>
    /\ UNCHANGED <<instVars, objVars, cfgVars>>

----------------------------------------------------------------------------
(* allocate_budget, lines 172-179: the solver.  scipy.optimize.minimize   *)
(* is a library; what the code sees of it is that it calls the objective  *)
(* some number of times and returns a result with success, x, fun and     *)
(* message.  A successful SLSQP result lies inside the bounds and meets   *)
(* the constraints it was given; which such point it is, and whether the  *)
(* solve succeeds at all, is left open.                                   *)

\* the points inside a bounds vector
Box(bnds) ==
    { x \in [1..Len(bnds) -> (0 - 1)..(MaxBudget + 1)] :
        \A i \in 1..Len(bnds) : bnds[i][1] <= x[i] /\ x[i] <= bnds[i][2] }

\* a scipy constraint dict holds at x
Satisfies(x, cons, tb) ==
    IF cons.type = "eq" THEN ConstraintFun(cons.fun, x, tb) = 0
                        ELSE ConstraintFun(cons.fun, x, tb) >= 0

SolverMessages ==
    { "Iteration limit reached",
      "Positive directional derivative for linesearch" }

InvokeSolver ==
    /\ phase = "BOUNDS_AND_CONSTRAINTS_RESOLVED"
    /\ phase' = "ITERATING"
    /\ solverCalls' = solverCalls + 1
    /\ UNCHANGED <<total_budget, budget_bounds, custom_constraints, warnings,
                   constraints, initial_guess, bounds, objCalls, result,
                   outcome>>
    /\ UNCHANGED <<instVars, objVars, cfgVars>>

\* the solver evaluates self.objective at a point of its choosing
Evaluate ==
    /\ phase = "ITERATING"
    /\ result = None
    /\ objCalls < MaxEvals
    /\ objCalls' = objCalls + 1
    /\ UNCHANGED <<total_budget, budget_bounds, custom_constraints, phase,
                   warnings, constraints, initial_guess, bounds, solverCalls,
                   result, outcome>>
    /\ UNCHANGED <<instVars, objVars, cfgVars>>

SolverSucceeds ==
    /\ phase = "ITERATING"
    /\ result = None
    /\ \E x \in Box(bounds) :
        /\ Satisfies(x, constraints, total_budget)
        /\ result' = [kind |-> "OptimizeResult", success |-> TRUE, x |-> x,
                      fun |-> objective(parameters, adstock_first, x),
                      message |-> "Optimization terminated successfully"]
    /\ UNCHANGED <<total_budget, budget_bounds, custom_constraints, phase,
                   warnings, constraints, initial_guess, bounds, solverCalls,
                   objCalls, outcome>>
    /\ UNCHANGED <<instVars, objVars, cfgVars>>

SolverFails ==
    /\ phase = "ITERATING"
    /\ result = None
    /\ \E m \in SolverMessages :
        result' = [kind |-> "OptimizeResult", success |-> FALSE,
                   x |-> initial_guess,
                   fun |-> objective(parameters, adstock_first, initial_guess),
                   message |-> m]
    /\ UNCHANGED <<total_budget, budget_bounds, custom_constraints, phase,
                   warnings, constraints, initial_guess, bounds, solverCalls,
                   objCalls, outcome>>
    /\ UNCHANGED <<instVars, objVars, cfgVars>>

----------------------------------------------------------------------------
(* allocate_budget, lines 180-187: the result is turned into the return   *)
(* value or into the exception                                            *)

\* decode pairing the channels with the solution vector back to front
decode_reversed(params_table, x) ==
    [channel \in ChannelsOf(params_table) |->
        x[Len(params_table) + 1
          - (CHOOSE i \in 1..Len(params_table) :
                params_table[i].channel = channel)]]

\* dict(zip(self.parameters.keys(), result.x))
decode(params_table, x) ==
    [channel \in ChannelsOf(params_table) |->
        x[CHOOSE i \in 1..Len(params_table) :
            params_table[i].channel = channel]]

\* make_outcome that returns the solver's last point whatever result.success
make_outcome_best_effort(params_table, res) ==
    [phase |-> "CONVERGED",
     outcome |-> [kind |-> "return",
                  optimal_budgets |->
                      [channel \in ChannelsOf(params_table) |->
                          res.x[CHOOSE i \in 1..Len(params_table) :
                                  params_table[i].channel = channel]],
                  response |-> 0 - res.fun]]

\* make_outcome that goes back for another solve after a failure
make_outcome_retry(params_table, res) ==
    IF res.success
    THEN [phase |-> "CONVERGED",
          outcome |-> [kind |-> "return",
                       optimal_budgets |->
                           [channel \in ChannelsOf(params_table) |->
                               res.x[CHOOSE i \in 1..Len(params_table) :
                                       params_table[i].channel = channel]],
                       response |-> 0 - res.fun]]
    ELSE [phase |-> "BOUNDS_AND_CONSTRAINTS_RESOLVED", outcome |-> None]

\* lines 180-187
make_outcome(params_table, res) ==
    IF res.success
    THEN [phase |-> "CONVERGED",
          outcome |-> [kind |-> "return",
                       optimal_budgets |-> decode(params_table, res.x),
                       response |-> 0 - res.fun]]
    ELSE [phase |-> "FAILED",
          outcome |-> Raise("Exception",
                            "Optimization failed: " \o res.message)]

Finish ==
    /\ phase = "ITERATING"
    /\ result # None
    /\ phase' = make_outcome(parameters, result).phase
    /\ outcome' = make_outcome(parameters, result).outcome
    /\ UNCHANGED <<total_budget, budget_bounds, custom_constraints, warnings,
                   constraints, initial_guess, bounds, solverCalls, objCalls,
                   result>>
    /\ UNCHANGED <<instVars, objVars, cfgVars>>

----------------------------------------------------------------------------
(* Spec: one call of allocate_budget *)

AllocIdle ==
    /\ total_budget = 0
    /\ budget_bounds = None
    /\ custom_constraints = None
    /\ phase = "NOT_CALLED"
    /\ warnings = <<>>
    /\ constraints = None
    /\ initial_guess = <<>>
    /\ bounds = <<>>
    /\ solverCalls = 0
    /\ objCalls = 0
    /\ result = None
    /\ outcome = None

ObjIdle == budgets = <<>> /\ obj_value = None

CfgIdle ==
    /\ name = "geometric"
    /\ model_config_arg = None
    /\ model_config = None
    /\ cfg_outcome = None

\* The transform parameters enter a call only through the objective's
\* value; the calls are drawn over the uniform tables.
Init ==
    /\ parameters \in UniformTables
    /\ adstock_first \in BOOLEAN
    /\ total_budget \in TotalBudgets
    /\ budget_bounds \in BudgetBoundsArgs(parameters)
    /\ custom_constraints \in ConstraintArgs
    /\ phase = "CONFIGURED"
    /\ warnings = <<>>
    /\ constraints = None
    /\ initial_guess = <<>>
    /\ bounds = <<>>
    /\ solverCalls = 0
    /\ objCalls = 0
    /\ result = None
    /\ outcome = None
    /\ ObjIdle
    /\ CfgIdle

Next ==
    \/ Resolve
    \/ InvokeSolver
    \/ Evaluate
    \/ SolverSucceeds
    \/ SolverFails
    \/ Finish

Spec == Init /\ [][Next]_vars

----------------------------------------------------------------------------
(* SpecObj: one call of objective *)

ObjectiveCall ==
    /\ obj_value = None
    /\ Len(budgets) = Len(parameters)
    /\ obj_value' = [kind |-> "float",
                     value |-> objective(parameters, adstock_first, budgets)]
    /\ UNCHANGED <<budgets, instVars, allocVars, cfgVars>>

InitObj ==
    /\ parameters \in ParameterTables
    /\ adstock_first \in BOOLEAN
    /\ budgets \in [1..Len(parameters) -> 0..MaxBudget]
    /\ obj_value = None
    /\ AllocIdle
    /\ CfgIdle

NextObj == ObjectiveCall

SpecObj == InitObj /\ [][NextObj]_vars

----------------------------------------------------------------------------
(* lagging.py: BaseFunction and the adstock components *)

ComponentNames == {"geometric", "weibull_pdf", "weibull_cdf"}

\* class attribute REQUIRED_KEYS
REQUIRED_KEYS(cls) ==
    IF cls = "geometric" THEN {"adstock_alpha"}
                         ELSE {"adstock_lambda", "adstock_shape"}

DefaultPrior == [dist |-> "Beta", kwargs |-> [alpha |-> 1, beta |-> 3]]

CustomPrior == [dist |-> "Gamma", kwargs |-> [alpha |-> 2, beta |-> 1]]

\* property _default_lagging_config
default_lagging_config(cls) ==
    IF cls = "geometric"
    THEN [k \in {"adstock_alpha"} |-> DefaultPrior]
    ELSE [k \in {"adstock_lambda", "adstock_shape"} |-> DefaultPrior]

\* {**a, **b}
DictMerge(a, b) ==
    [k \in (DOMAIN a) \cup (DOMAIN b) |-> IF k \in DOMAIN b THEN b[k] ELSE a[k]]

Dict(m) == [kind |-> "dict", map |-> m]

\* BaseFunction.initialize_model_config
initialize_model_config(cls, config) ==
    IF config # None /\ ~(\A key \in REQUIRED_KEYS(cls) : key \in DOMAIN config.map)
    THEN Dict(DictMerge(config.map, default_lagging_config(cls)))
    ELSE IF config = None
    THEN Dict(default_lagging_config(cls))
    ELSE config

ConfigKeys == {"adstock_alpha", "adstock_lambda", "adstock_shape", "intercept"}

ModelConfigArgs ==
    {None} \cup
    { Dict(m) : m \in UNION { [K -> {DefaultPrior, CustomPrior}] :
                                K \in SUBSET ConfigKeys } }

\* _get_lagging_function, with the constructor it calls
GetLaggingFunction ==
    /\ cfg_outcome = None
    /\ IF name \in ComponentNames
       THEN /\ model_config' = initialize_model_config(name, model_config_arg)
            /\ cfg_outcome' = [kind |-> "return", cls |-> name]
       ELSE /\ cfg_outcome' = Raise("ValueError", "Lagging function not recognized.")
            /\ UNCHANGED model_config
    /\ UNCHANGED <<name, model_config_arg, instVars, allocVars, objVars>>

InitCfg ==
    /\ name \in ComponentNames \cup {"delayed"}
    /\ model_config_arg \in ModelConfigArgs
    /\ model_config = None
    /\ cfg_outcome = None
    /\ parameters = <<>>
    /\ adstock_first = TRUE
    /\ AllocIdle
    /\ ObjIdle

NextCfg == GetLaggingFunction

SpecCfg == InitCfg /\ [][NextCfg]_vars

----------------------------------------------------------------------------
(* Properties of allocate_budget (Spec) *)

NumChannels == Len(parameters)

\* the call has handed its bounds, constraints and initial guess to the solver
SolverInvoked == solverCalls >= 1

CallEnded ==
    phase \in {"CONFIG_ERROR", "ARITHMETIC_ERROR", "CONVERGED", "FAILED"}

BoundsSupplied == budget_bounds # None

ConstraintsSupplied == custom_constraints # None

BadArguments ==
    \/ BoundsSupplied /\ ~IsDict(budget_bounds)
    \/ ConstraintsSupplied /\ ~IsDict(custom_constraints)

\* the bound the caller's arguments determine for the i-th channel
CallerBound(i) ==
    IF BoundsSupplied /\ IsDict(budget_bounds)
       /\ parameters[i].channel \in DOMAIN budget_bounds.map
    THEN budget_bounds.map[parameters[i].channel]
    ELSE <<0, total_budget>>

\* C1: a call whose budget_bounds or custom_constraints is supplied and is
\* not a mapping ends in a TypeError, and neither the objective nor the
\* solver is invoked during it.
C1_NonMappingIsTypeError ==
    BadArguments =>
        /\ solverCalls = 0
        /\ objCalls = 0
        /\ phase \in {"CONFIGURED", "CONFIG_ERROR"}
        /\ phase = "CONFIG_ERROR" =>
              outcome.kind = "raise" /\ outcome.exc = "TypeError"

C1_Witness ==
    /\ phase = "CONFIG_ERROR"
    /\ budget_bounds = None
    /\ custom_constraints = NotADict
    /\ outcome.kind = "raise"

\* C2: when the solver reports result.success false the call raises a
\* failure carrying the solver's message and returns nothing; an allocation
\* is returned only when the solver reports success.
C2_FailureRaisesNoAllocation ==
    /\ (result # None /\ ~result.success) =>
          /\ phase \in {"ITERATING", "FAILED"}
          /\ outcome.kind # "return"
          /\ phase = "FAILED" =>
                /\ outcome.kind = "raise"
                /\ outcome.exc = "Exception"
                /\ outcome.message = "Optimization failed: " \o result.message
    /\ outcome.kind = "return" => (result # None /\ result.success)
    /\ phase = "CONVERGED" <=> outcome.kind = "return"

C2_Witness ==
    /\ phase = "FAILED"
    /\ ~result.success
    /\ result.message = "Iteration limit reached"
    /\ outcome.kind = "raise"

\* C3: with n >= 1 channels, total_budget > 0 and no custom constraints, a
\* returned allocation sums to total_budget and gives each channel a value
\* inside the bounds resolved for that channel.
C3_AllocationFeasible ==
    (/\ outcome.kind = "return"
     /\ ~ConstraintsSupplied
     /\ NumChannels >= 1
     /\ total_budget > 0) =>
        /\ DOMAIN outcome.optimal_budgets = ChannelsOf(parameters)
        /\ SumSeq([i \in 1..NumChannels |->
                     outcome.optimal_budgets[parameters[i].channel]])
              = total_budget
        /\ \A i \in 1..NumChannels :
              /\ CallerBound(i)[1]
                    <= outcome.optimal_budgets[parameters[i].channel]
              /\ outcome.optimal_budgets[parameters[i].channel]
                    <= CallerBound(i)[2]

C3_Witness ==
    /\ outcome.kind = "return"
    /\ ~ConstraintsSupplied
    /\ NumChannels = 2
    /\ total_budget = MaxBudget
    /\ BoundsSupplied
    /\ DOMAIN budget_bounds.map = {"tv"}
    /\ outcome.optimal_budgets["tv"] # outcome.optimal_budgets["radio"]

\* C4: the bounds vector passed to the solver has one entry per channel of
\* the parameter table, in table order: the caller's pair when the channel
\* is a key of the supplied mapping, (0, total_budget) otherwise.
C4_BoundsVector ==
    SolverInvoked =>
        /\ Len(bounds) = NumChannels
        /\ \A i \in 1..NumChannels : bounds[i] = CallerBound(i)

C4_Witness ==
    /\ SolverInvoked
    /\ NumChannels = 2
    /\ BoundsSupplied
    /\ DOMAIN budget_bounds.map = {"radio"}
    /\ bounds[1] = <<0, total_budget>>
    /\ bounds[2] = budget_bounds.map["radio"]
    /\ bounds[2] # bounds[1]

Occurs(w, ws) == \E j \in 1..Len(ws) : ws[j] = w

Count(w, ws) == Cardinality({ j \in 1..Len(ws) : ws[j] = w })

\* the arguments pass both isinstance checks
ArgumentsWellTyped == ~BadArguments

\* the code built the bounds vector and the i-th entry is the default,
\* not a pair of the caller's
DefaultBoundUsed(i) ==
    /\ bounds # <<>>
    /\ ~(BoundsSupplied /\ parameters[i].channel \in DOMAIN budget_bounds.map)

DefaultConstraintInstalled ==
    constraints # None /\ ~ConstraintsSupplied

ReachedSolver == phase \in {"ITERATING", "CONVERGED", "FAILED"}

\* C5 as stated: whenever a default (0, total_budget) bound is used for a
\* channel or the default equality constraint is installed, the warning
\* for that default is emitted and execution continues to the solver; with
\* neither argument given there is one warning for each default.
C5_Original ==
    (phase # "CONFIGURED" /\ phase # "BOUNDS_AND_CONSTRAINTS_RESOLVED") =>
        /\ (\E i \in 1..NumChannels : DefaultBoundUsed(i)) =>
              (Occurs(BoundsWarning, warnings) /\ ReachedSolver)
        /\ DefaultConstraintInstalled =>
              (Occurs(ConstraintWarning, warnings) /\ ReachedSolver)
        /\ (~BoundsSupplied /\ ~ConstraintsSupplied) =>
              warnings = <<BoundsWarning, ConstraintWarning>>

\* C5 amended: the default-bounds warning is emitted exactly when no
\* budget_bounds is supplied (a channel only absent from a supplied mapping
\* gets (0, total_budget) silently); the default-constraint warning is
\* emitted exactly when no custom_constraints is supplied and budget_bounds
\* passed its type check; each at most once, bounds first; a warning never
\* ends the call: with well-typed arguments and at least one channel the
\* call goes on to the solver.
C5_WarningsForDefaults ==
    phase # "CONFIGURED" =>
        /\ Occurs(BoundsWarning, warnings) <=> ~BoundsSupplied
        /\ Occurs(ConstraintWarning, warnings) <=>
              (~ConstraintsSupplied
               /\ (~BoundsSupplied \/ IsDict(budget_bounds)))
        /\ Count(BoundsWarning, warnings) <= 1
        /\ Count(ConstraintWarning, warnings) <= 1
        /\ (~BoundsSupplied /\ ~ConstraintsSupplied) =>
              warnings = <<BoundsWarning, ConstraintWarning>>
        /\ (ArgumentsWellTyped /\ NumChannels >= 1) =>
              phase \in {"BOUNDS_AND_CONSTRAINTS_RESOLVED", "ITERATING",
                         "CONVERGED", "FAILED"}
        /\ (ReachedSolver /\ BoundsSupplied) =>
              \A i \in 1..NumChannels :
                  parameters[i].channel \notin DOMAIN budget_bounds.map =>
                      bounds[i] = <<0, total_budget>>

C5_Witness ==
    /\ phase = "ITERATING"
    /\ ~BoundsSupplied
    /\ ~ConstraintsSupplied
    /\ warnings = <<BoundsWarning, ConstraintWarning>>
    /\ NumChannels = 2

\* C7 as stated: every bound (min, max) handed to the solver has
\* 0 <= min <= max, whatever mapping and total_budget the caller supplies.
C7_Original ==
    SolverInvoked =>
        \A i \in 1..Len(bounds) :
            0 <= bounds[i][1] /\ bounds[i][1] <= bounds[i][2]

WellFormedPair(b) == 0 <= b[1] /\ b[1] <= b[2]

\* C7 amended: the pairs are handed on unvalidated, so every bound handed
\* to the solver has 0 <= min <= max provided total_budget >= 0 and every
\* pair the caller's mapping holds for a channel has 0 <= min <= max.
C7_BoundsWellFormedIfCallerIs ==
    (/\ SolverInvoked
     /\ total_budget >= 0
     /\ BoundsSupplied =>
           \A c \in DOMAIN budget_bounds.map :
               WellFormedPair(budget_bounds.map[c])) =>
        \A i \in 1..Len(bounds) : WellFormedPair(bounds[i])

C7_Witness ==
    /\ SolverInvoked
    /\ total_budget = 2
    /\ BoundsSupplied
    /\ NumChannels = 2
    /\ DOMAIN budget_bounds.map = {"tv"}
    /\ budget_bounds.map["tv"] = <<1, MaxBudget>>
    /\ bounds = <<(<<1, MaxBudget>>), (<<0, 2>>)>>

\* C9 as stated: the initial guess handed to the solver has one entry per
\* channel, all entries equal, summing to total_budget, for total_budget
\* >= 0 and n >= 1.
C9_Original ==
    (SolverInvoked /\ total_budget >= 0 /\ NumChannels >= 1) =>
        /\ Len(initial_guess) = NumChannels
        /\ \A i \in 1..Len(initial_guess) : initial_guess[i] = initial_guess[1]
        /\ SumSeq(initial_guess) = total_budget

\* C9 amended: the initial guess has one entry per channel, every entry the
\* floor of total_budget / n; the entries sum to total_budget exactly when
\* n divides total_budget, and otherwise to less, by fewer than n.
C9_InitialGuessFloorSplit ==
    (SolverInvoked /\ total_budget >= 0 /\ NumChannels >= 1) =>
        /\ Len(initial_guess) = NumChannels
        /\ \A i \in 1..Len(initial_guess) :
              /\ initial_guess[i] = initial_guess[1]
              /\ NumChannels * initial_guess[i] <= total_budget
              /\ total_budget < NumChannels * (initial_guess[i] + 1)
        /\ SumSeq(initial_guess) <= total_budget
        /\ total_budget - SumSeq(initial_guess) < NumChannels
        /\ SumSeq(initial_guess) = total_budget <=>
              total_budget % NumChannels = 0

C9_Witness ==
    /\ SolverInvoked
    /\ total_budget = 3
    /\ NumChannels = 2
    /\ initial_guess = <<1, 1>>

----------------------------------------------------------------------------
(* The phases of a call (Spec) *)

PhaseOrder ==
    { <<"CONFIGURED", "BOUNDS_AND_CONSTRAINTS_RESOLVED">>,
      <<"BOUNDS_AND_CONSTRAINTS_RESOLVED", "ITERATING">>,
      <<"ITERATING", "CONVERGED">>,
      <<"ITERATING", "FAILED">> }

\* C8 as stated: every call goes CONFIGURED, BOUNDS_AND_CONSTRAINTS_RESOLVED,
\* ITERATING and then CONVERGED or FAILED, with the solver invoked exactly
\* once in the call.
C8_Original ==
    /\ phase \in {"CONFIGURED", "BOUNDS_AND_CONSTRAINTS_RESOLVED",
                  "ITERATING", "CONVERGED", "FAILED"}
    /\ CallEnded => solverCalls = 1

GoodCall == ArgumentsWellTyped /\ NumChannels >= 1

C8_PhaseInvariant ==
    /\ solverCalls = IF ReachedSolver THEN 1 ELSE 0
    /\ objCalls > 0 => ReachedSolver
    /\ (ReachedSolver \/ phase = "BOUNDS_AND_CONSTRAINTS_RESOLVED") =>
          /\ constraints # None
          /\ Len(bounds) = NumChannels
          /\ Len(initial_guess) = NumChannels
    /\ GoodCall =>
          phase \in {"CONFIGURED", "BOUNDS_AND_CONSTRAINTS_RESOLVED",
                     "ITERATING", "CONVERGED", "FAILED"}
    /\ ~GoodCall =>
          phase \in {"CONFIGURED", "CONFIG_ERROR", "ARITHMETIC_ERROR"}
    /\ phase = "CONVERGED" => (result.success /\ outcome.kind = "return")
    /\ phase = "FAILED" => (~result.success /\ outcome.kind = "raise")
    /\ phase = "CONFIGURED" => ENABLED Resolve
    /\ phase = "BOUNDS_AND_CONSTRAINTS_RESOLVED" => ENABLED InvokeSolver
    /\ (phase = "ITERATING" /\ result # None) => ENABLED Finish

C8_PhaseStep ==
    /\ phase' # phase =>
          \/ <<phase, phase'>> \in PhaseOrder
          \/ /\ phase = "CONFIGURED"
             /\ phase' \in {"CONFIG_ERROR", "ARITHMETIC_ERROR"}
    /\ solverCalls' # solverCalls =>
          /\ phase = "BOUNDS_AND_CONSTRAINTS_RESOLVED"
          /\ phase' = "ITERATING"
          /\ solverCalls' = solverCalls + 1
    /\ bounds' # bounds => phase = "CONFIGURED"
    /\ constraints' # constraints => phase = "CONFIGURED"
    /\ initial_guess' # initial_guess => phase = "CONFIGURED"
    /\ CallEnded => UNCHANGED vars

\* C8 amended: a call whose arguments pass the type checks and whose table
\* has at least one channel goes CONFIGURED, BOUNDS_AND_CONSTRAINTS_RESOLVED,
\* ITERATING and then exactly one of CONVERGED or FAILED, never stopping
\* before: bounds and constraints are resolved before the solver is
\* invoked, the solver is invoked exactly once, and no phase is re-entered.
\* Any other call ends in an error straight from CONFIGURED with the solver
\* never invoked.
C8_PhasesInOrder ==
    /\ []C8_PhaseInvariant
    /\ [][C8_PhaseStep]_vars

C8_Witness ==
    /\ phase = "FAILED"
    /\ solverCalls = 1
    /\ objCalls = MaxEvals
    /\ NumChannels = 2

----------------------------------------------------------------------------
(* Property of objective (SpecObj) *)

\* num_days copies of the spend followed by max_lag zeros
ConstantSeries(spend_value) ==
    [t \in 1..(num_days + l_max) |->
        IF t <= num_days THEN spend_value ELSE 0]

PipelineResponse(i) ==
    LET p == parameters[i].params
        series == ConstantSeries(budgets[i])
    IN  IF adstock_first
        THEN SumSeq(SaturationFunction(
                        AdstockFunction(series, p.adstock_params),
                        p.saturation_params))
        ELSE SumSeq(AdstockFunction(
                        SaturationFunction(series, p.saturation_params),
                        p.adstock_params))

\* C6: objective returns the negated sum over channels of the time-sum of
\* second(first(series, first_params), second_params), series being
\* num_days copies of the channel's spend then max_lag zeros, the order
\* (adstock, saturation) when adstock_first and (saturation, adstock)
\* otherwise, each stage with its own parameters.
C6_ObjectiveIsNegatedResponse ==
    obj_value # None =>
        obj_value.value
            = 0 - SumSeq([i \in 1..NumChannels |-> PipelineResponse(i)])

C6_Witness ==
    /\ obj_value # None
    /\ ~adstock_first
    /\ NumChannels = 2
    /\ budgets = <<MaxBudget, 1>>
    /\ obj_value.value < 0
    /\ PipelineResponse(1) # PipelineResponse(2)

----------------------------------------------------------------------------
(* Property of the lagging components (SpecCfg) *)

\* C10: the configuration initialize_model_config returns holds every key
\* of REQUIRED_KEYS, and every key the caller supplied keeps the caller's
\* value.
C10_ConfigKeepsCallerValues ==
    (cfg_outcome.kind = "return") =>
        /\ \A key \in REQUIRED_KEYS(name) : key \in DOMAIN model_config.map
        /\ model_config_arg # None =>
              \A key \in DOMAIN model_config_arg.map :
                  /\ key \in DOMAIN model_config.map
                  /\ model_config.map[key] = model_config_arg.map[key]

====
